---- MODULE Spec2Model ----
(***************************************************************************)
(* NearLink messaging subsystem: the conversations and messages tables     *)
(* with their row-level policies (messaging migration), the conversation   *)
(* resolver getOrCreateConversation (lib/messaging) and the chat screen    *)
(* (app/chat/[id].tsx).                                                    *)
(***************************************************************************)
EXTENDS Naturals, Integers, Sequences, FiniteSets, TLC

\* ------------------------------------------------------------------ bounds
MaxConvs == 2      \* rows the conversations table may hold in the model
MaxMsgs == 2       \* rows the messages table may hold in the model
MaxTime == 2       \* last value of the clock

\* ---------------------------------------------------------------- entities
NULL == "null"                       \* SQL null, JS null / undefined
NoTime == -1                         \* a null timestamp (the clock starts at 0)
NoId == 0                            \* no identifier (generated ids start at 1)
Users == {"u1", "u2", "u3"}          \* profiles(id)
Listings == {"l1", "l2"}             \* listings(id)
Requests == {"r1"}                   \* requests(id)
Initiators == {"u1", "u2"}           \* the users who start conversations

\* listings.user_id / requests.user_id: the owner of each item
ListingOwner == [l \in Listings |-> IF l = "l1" THEN "u2" ELSE "u1"]
RequestOwner == [r \in Requests |-> "u2"]

VARIABLES
    conversations,   \* table conversations: set of rows
    messages,        \* table messages: set of rows
    nextId,          \* gen_random_uuid(): the next fresh identifier
    now,             \* now(): the clock
    prevCall,        \* the getOrCreateConversation call before the last one
    lastCall,        \* the last getOrCreateConversation call and its outcome
    chatUser,        \* ChatScreen: user (useAuth) of the mounted screen
    chatId,          \* ChatScreen: route parameter id, NoId when not mounted
    chatMessages,    \* ChatScreen: useState messages
    messageText,     \* ChatScreen: useState messageText
    loading,         \* ChatScreen: useState loading
    sending,         \* ChatScreen: useState sending
    pc,              \* handleSendMessage: "idle", "insert" or "update"
    text,            \* handleSendMessage: const text
    data,            \* handleSendMessage: the inserted row returned
    fetchPending,    \* fetchMessages calls whose query has not run yet
    fetchResponses,  \* fetchMessages responses not yet delivered
    lastSend,        \* outcome of the last finished handleSendMessage
    profiles,        \* table profiles: the ids of its rows
    listings,        \* table listings: the ids of its rows
    requests,        \* table requests: the ids of its rows
    calls,           \* overlapping getOrCreateConversation calls, by client
    lastRead,        \* the rows the last SELECT statement returned
    lastWrite,       \* the last INSERT or UPDATE statement and its outcome
    inboxConversations  \* Messages: useState conversations

resolverVars == <<prevCall, lastCall>>
storeVars == <<conversations, messages, nextId, now>>
screenVars == <<chatUser, chatId, chatMessages, messageText, loading, sending,
                pc, text, data, fetchPending, fetchResponses, lastSend>>
catalogVars == <<profiles, listings, requests>>
clientVars == <<calls, lastRead, lastWrite>>
extVars == <<catalogVars, clientVars, inboxConversations>>
vars == <<storeVars, resolverVars, screenVars, extVars>>

\* ------------------------------------------------- conversations: policies
\* "Users can view own conversations" (FOR SELECT USING)
ConvSelectPolicy(uid, c) ==
    uid = c.participant_1_id \/ uid = c.participant_2_id

\* the INSERT policy admitting every authenticated user (WITH CHECK (true))
ConvInsertPolicy_Authenticated(uid, c) == uid \in Users

\* "Users can create conversations" (FOR INSERT WITH CHECK)
ConvInsertPolicy(uid, c) ==
    uid = c.participant_1_id \/ uid = c.participant_2_id

\* an UPDATE policy mirroring the SELECT policy
ConvUpdatePolicy_Participant(uid, c) ==
    uid = c.participant_1_id \/ uid = c.participant_2_id

\* row level security is enabled on conversations and no policy is declared
\* FOR UPDATE: an UPDATE sees no row
ConvUpdatePolicy(uid, c) == FALSE

\* ------------------------------------------------------ messages: policies
\* "Conversation participants can view messages" (FOR SELECT USING)
MsgSelectPolicy(uid, m) ==
    \E c \in conversations :
        /\ c.id = m.conversation_id
        /\ (c.participant_1_id = uid \/ c.participant_2_id = uid)

\* the INSERT policy checking the caller's membership, not the sender
MsgInsertPolicy_Participant(uid, m) ==
    \E c \in conversations :
        /\ c.id = m.conversation_id
        /\ (c.participant_1_id = uid \/ c.participant_2_id = uid)

\* "Authenticated users can send messages" (FOR INSERT WITH CHECK)
MsgInsertPolicy(uid, m) == uid = m.sender_id

\* the UPDATE policy admitting either participant
MsgUpdatePolicy_AnyParticipant(uid, m) ==
    \E c \in conversations :
        /\ c.id = m.conversation_id
        /\ (c.participant_1_id = uid \/ c.participant_2_id = uid)

\* "Recipients can update read_at timestamp" (FOR UPDATE USING / WITH CHECK)
MsgUpdatePolicy(uid, m) ==
    \E c \in conversations :
        /\ c.id = m.conversation_id
        /\ c.participant_2_id = uid

\* ------------------------------------------------------------ constraints
\* a UNIQUE constraint on (participant_1_id, participant_2_id, listing_id,
\* request_id), null counting as a value
ConvUnique_Tuple(row) ==
    ~\E c \in conversations :
        /\ c.participant_1_id = row.participant_1_id
        /\ c.participant_2_id = row.participant_2_id
        /\ c.listing_id = row.listing_id
        /\ c.request_id = row.request_id

\* CREATE TABLE conversations declares a primary key on the generated id and
\* no UNIQUE constraint: no stored row makes an insert fail
ConvUnique(row) == TRUE


\* conversations: participant_1_id, participant_2_id REFERENCES profiles,
\* listing_id REFERENCES listings, request_id REFERENCES requests
ConvForeignKeys(c) ==
    /\ c.participant_1_id \in profiles
    /\ c.participant_2_id \in profiles
    /\ (c.listing_id # NULL => c.listing_id \in listings)
    /\ (c.request_id # NULL => c.request_id \in requests)

\* messages: conversation_id REFERENCES conversations, sender_id REFERENCES
\* profiles
MsgForeignKeys(m) ==
    /\ \E c \in conversations : c.id = m.conversation_id
    /\ m.sender_id \in profiles

\* --------------------------------------------------------------- resolver
NoCall == [status |-> "none"]

\* JS `x || null`: a missing optional argument is stored as null
OrNull(x) == IF x = NULL THEN NULL ELSE x

\* LookupRows with the second filter on the wrong argument
\* (.eq('participant_2_id', userId))
LookupRows_WrongColumn(uid, userId, otherUserId, listingId, requestId) ==
    { c \in conversations :
        /\ ConvSelectPolicy(uid, c)
        /\ c.participant_1_id = userId
        /\ c.participant_2_id = userId
        /\ (listingId # NULL => c.listing_id = listingId)
        /\ (requestId # NULL => c.request_id = requestId) }

\* LookupRows matching the participant pair in either order
LookupRows_EitherOrder(uid, userId, otherUserId, listingId, requestId) ==
    { c \in conversations :
        /\ ConvSelectPolicy(uid, c)
        /\ \/ c.participant_1_id = userId /\ c.participant_2_id = otherUserId
           \/ c.participant_1_id = otherUserId /\ c.participant_2_id = userId
        /\ (listingId # NULL => c.listing_id = listingId)
        /\ (requestId # NULL => c.request_id = requestId) }

\* LookupRows without the listing_id filter
LookupRows_NoListingFilter(uid, userId, otherUserId, listingId, requestId) ==
    { c \in conversations :
        /\ ConvSelectPolicy(uid, c)
        /\ c.participant_1_id = userId
        /\ c.participant_2_id = otherUserId
        /\ (requestId # NULL => c.request_id = requestId) }

\* the rows the lookup query of getOrCreateConversation selects for caller uid
LookupRows(uid, userId, otherUserId, listingId, requestId) ==
    { c \in conversations :
        /\ ConvSelectPolicy(uid, c)
        /\ c.participant_1_id = userId
        /\ c.participant_2_id = otherUserId
        /\ (listingId # NULL => c.listing_id = listingId)
        /\ (requestId # NULL => c.request_id = requestId) }

\* the row the insert of getOrCreateConversation builds
NewConversation(userId, otherUserId, listingId, requestId) ==
    [ id |-> nextId,
      participant_1_id |-> userId,
      participant_2_id |-> otherUserId,
      listing_id |-> OrNull(listingId),
      request_id |-> OrNull(requestId),
      last_message_at |-> now,
      created_at |-> now ]

\* what getOrCreateConversation does for the signed-in user uid: "error"
\* (rethrown), "found" (data.id) or "created" (newConv.id)
Resolved(uid, userId, otherUserId, listingId, requestId) ==
    LET rows == LookupRows(uid, userId, otherUserId, listingId, requestId)
        row  == NewConversation(userId, otherUserId, listingId, requestId)
    IN  IF Cardinality(rows) > 1
        THEN \* maybeSingle(): more than one row is an error
             [status |-> "error", id |-> NoId]
        ELSE IF Cardinality(rows) = 1
        THEN [status |-> "found", id |-> (CHOOSE c \in rows : TRUE).id]
        ELSE IF /\ ConvUnique(row)
                /\ ConvForeignKeys(row)
                /\ ConvInsertPolicy(uid, row)
                /\ ConvSelectPolicy(uid, row)
        THEN \* insert(...).select('id').single()
             [status |-> "created", id |-> row.id]
        ELSE \* the new row violates a foreign key or the row-level policy:
             \* createError
             [status |-> "error", id |-> NoId]

\* the effect of that call on the conversations table
ResolvedStore(out, userId, otherUserId, listingId, requestId) ==
    IF out.status = "created"
    THEN /\ Cardinality(conversations) < MaxConvs
         /\ conversations' = conversations \cup
                {NewConversation(userId, otherUserId, listingId, requestId)}
         /\ nextId' = nextId + 1
    ELSE UNCHANGED <<conversations, nextId>>

CallRecord(userId, otherUserId, listingId, requestId, out) ==
    [ userId |-> userId, otherUserId |-> otherUserId,
      listingId |-> listingId, requestId |-> requestId,
      status |-> out.status, id |-> out.id ]

\* getOrCreateConversation(userId, otherUserId, listingId?, requestId?) run to
\* completion by the signed-in user uid
getOrCreateConversation(uid, userId, otherUserId, listingId, requestId) ==
    LET out == Resolved(uid, userId, otherUserId, listingId, requestId)
    IN  /\ ResolvedStore(out, userId, otherUserId, listingId, requestId)
        /\ prevCall' = lastCall
        /\ lastCall' = CallRecord(userId, otherUserId, listingId, requestId, out)
        /\ UNCHANGED <<messages, now, screenVars, extVars>>

\* both call sites pass the signed-in user's id as userId and return before
\* the call when the other user is the signed-in user
Resolve ==
    \E userId \in Initiators :
      \E otherUserId \in Initiators \ {userId},
         listingId \in Listings \cup {NULL}, requestId \in Requests \cup {NULL} :
        getOrCreateConversation(userId, userId, otherUserId, listingId, requestId)

NoSend == [status |-> "none"]

\* handleSendMessage: no row returned by an insert is held
NoData == [id |-> NoId]

\* the devices running getOrCreateConversation at the same time
Clients == {1, 2}

\* a device with no call in progress
NoClientCall ==
    [ pc |-> "idle", userId |-> NULL, otherUserId |-> NULL,
      listingId |-> NULL, requestId |-> NULL, status |-> "none", id |-> NoId,
      lookups |-> 0, inserts |-> 0, fault |-> "none", failed |-> "none" ]

\* no SELECT statement answered yet
NoRead == [uid |-> NULL, conversations |-> {}, messages |-> {}]

\* no INSERT or UPDATE statement answered yet
NoWrite == [stmt |-> "none"]

Init ==
    /\ conversations = {}
    /\ messages = {}
    /\ nextId = 1
    /\ now = 0
    /\ prevCall = NoCall
    /\ lastCall = NoCall
    /\ chatUser = NULL
    /\ chatId = NoId
    /\ chatMessages = <<>>
    /\ messageText = <<>>
    /\ loading = TRUE
    /\ sending = FALSE
    /\ pc = "idle"
    /\ text = <<>>
    /\ data = NoData
    /\ fetchPending = 0
    /\ fetchResponses = {}
    /\ lastSend = NoSend
    /\ profiles = Users
    /\ listings = Listings
    /\ requests = Requests
    /\ calls = [p \in Clients |-> NoClientCall]
    /\ lastRead = NoRead
    /\ lastWrite = NoWrite
    /\ inboxConversations = <<>>

\* ------------------------------------------------------------ chat screen
\* the draft texts typed into the input: empty, blank and non-blank
Texts == { <<>>, <<" ">>, <<"h", "i">> }

IsSpace(ch) == ch = " "

RECURSIVE TrimStart(_)
TrimStart(t) ==
    IF t # <<>> /\ IsSpace(Head(t)) THEN TrimStart(Tail(t)) ELSE t

RECURSIVE TrimEnd(_)
TrimEnd(t) ==
    IF t # <<>> /\ IsSpace(t[Len(t)])
    THEN TrimEnd(SubSeq(t, 1, Len(t) - 1)) ELSE t

\* the guard testing the draft itself (`!messageText`)
Trim_NoTrim(t) == t

\* String.prototype.trim
Trim(t) == TrimEnd(TrimStart(t))

\* ChatScreen mounted for route /chat/[id] with signed-in user uid: fresh
\* component state, and both effects call fetchMessages
Mount(uid, id) ==
    /\ chatUser' = uid
    /\ chatId' = id
    /\ chatMessages' = <<>>
    /\ messageText' = <<>>
    /\ loading' = TRUE
    /\ sending' = FALSE
    /\ pc' = "idle"
    /\ text' = <<>>
    /\ data' = NoData
    /\ fetchPending' = 2
    /\ fetchResponses' = {}
    /\ lastSend' = NoSend

\* Browse.handleChat(listing) by the signed-in user uid
BrowseHandleChat(uid, listing) ==
    LET owner == ListingOwner[listing]
        out   == Resolved(uid, uid, owner, listing, NULL)
    IN  /\ pc = "idle"
        /\ uid # owner
        /\ ResolvedStore(out, uid, owner, listing, NULL)
        /\ IF out.status = "error"
           THEN UNCHANGED screenVars
           ELSE Mount(uid, out.id)
        /\ UNCHANGED <<messages, now, resolverVars, extVars>>

\* Requests.handleChat(request) by the signed-in user uid
RequestsHandleChat(uid, request) ==
    LET owner == RequestOwner[request]
        out   == Resolved(uid, uid, owner, NULL, request)
    IN  /\ pc = "idle"
        /\ uid # owner
        /\ ResolvedStore(out, uid, owner, NULL, request)
        /\ IF out.status = "error"
           THEN UNCHANGED screenVars
           ELSE Mount(uid, out.id)
        /\ UNCHANGED <<messages, now, resolverVars, extVars>>

\* the outcome of a handleChat that returned before the call
NotCalled == [status |-> "not called", id |-> NoId]

\* handleChat calling getOrCreateConversation whoever owns the item
HandleChat_NoOwnerCheck(user, owner, listingId, requestId) ==
    LET out == Resolved(user, user, owner, listingId, requestId)
    IN  /\ pc = "idle"
        /\ prevCall' = lastCall
        /\ IF user = NULL
           THEN /\ lastCall' = CallRecord(user, owner, listingId, requestId,
                                          NotCalled)
                /\ UNCHANGED <<conversations, nextId, screenVars>>
           ELSE /\ lastCall' = CallRecord(user, owner, listingId, requestId,
                                          out)
                /\ ResolvedStore(out, user, owner, listingId, requestId)
                /\ IF out.status = "error"
                   THEN UNCHANGED screenVars
                   ELSE Mount(user, out.id)
        /\ UNCHANGED <<messages, now, extVars>>

\* handleChat of either screen pressed with useAuth().user = user (null when
\* nobody is signed in) on an item of owner: the two early returns, then
\* getOrCreateConversation(user.id, owner, listingId, requestId) and
\* router.push, or the alert of the catch block
HandleChat(user, owner, listingId, requestId) ==
    LET out == Resolved(user, user, owner, listingId, requestId)
    IN  /\ pc = "idle"
        /\ prevCall' = lastCall
        /\ IF user = NULL \/ user = owner
           THEN /\ lastCall' = CallRecord(user, owner, listingId, requestId,
                                          NotCalled)
                /\ UNCHANGED <<conversations, nextId, screenVars>>
           ELSE /\ lastCall' = CallRecord(user, owner, listingId, requestId,
                                          out)
                /\ ResolvedStore(out, user, owner, listingId, requestId)
                /\ IF out.status = "error"
                   THEN UNCHANGED screenVars
                   ELSE Mount(user, out.id)
        /\ UNCHANGED <<messages, now, extVars>>

\* the users of the device: nobody signed in, or one of the profiles
SignedIn == Users \cup {NULL}

\* Browse.handleChat / Requests.handleChat run on another device by its
\* signed-in user uid; that device's screen is not kept
OtherStartChat(uid, owner, listing, request) ==
    LET out == Resolved(uid, uid, owner, listing, request)
    IN  /\ uid # owner
        /\ out.status = "created"
        /\ ResolvedStore(out, uid, owner, listing, request)
        /\ UNCHANGED <<messages, now, resolverVars, extVars, screenVars>>

OtherChat ==
    \/ \E uid \in Initiators, listing \in Listings :
           OtherStartChat(uid, ListingOwner[listing], listing, NULL)
    \/ \E uid \in Initiators, request \in Requests :
           OtherStartChat(uid, RequestOwner[request], NULL, request)

\* the route /chat/[id] opened by user uid with the id of a stored
\* conversation: from the Messages list (a participant) or by a link to the
\* route (any signed-in user)
OpenChat(uid, id) ==
    /\ pc = "idle"
    /\ (chatUser # uid \/ chatId # id)
    /\ Mount(uid, id)
    /\ UNCHANGED <<storeVars, resolverVars, extVars>>

\* onChangeText of the input, editable while not sending
TypeText(t) ==
    /\ chatId # NoId
    /\ ~sending
    /\ messageText # t
    /\ messageText' = t
    /\ UNCHANGED <<storeVars, resolverVars, extVars, chatUser, chatId,
                   chatMessages, loading, sending, pc, text, data,
                   fetchPending, fetchResponses, lastSend>>

\* the rows the query of fetchMessages returns to user uid for conversation id
FetchRows(uid, id) ==
    { m \in messages : MsgSelectPolicy(uid, m) /\ m.conversation_id = id }

\* the rows ordered with ascending: true
OrderDesc_Ascending(rows) ==
    { s \in [1..Cardinality(rows) -> rows] :
        /\ \A i \in DOMAIN s, j \in DOMAIN s : i # j => s[i] # s[j]
        /\ \A i \in DOMAIN s, j \in DOMAIN s :
               i < j => s[i].created_at <= s[j].created_at }

\* .order('created_at', {ascending: false}): every arrangement of the rows
\* with created_at non-increasing (rows of equal created_at in any order)
OrderDesc(rows) ==
    { s \in [1..Cardinality(rows) -> rows] :
        /\ \A i \in DOMAIN s, j \in DOMAIN s : i # j => s[i] # s[j]
        /\ \A i \in DOMAIN s, j \in DOMAIN s :
               i < j => s[i].created_at >= s[j].created_at }

\* fetchMessages: the store runs the query
FetchQuery ==
    /\ fetchPending > 0
    /\ \E s \in OrderDesc(FetchRows(chatUser, chatId)) :
           fetchResponses' =
               fetchResponses \cup {[call |-> fetchPending, data |-> s]}
    /\ fetchPending' = fetchPending - 1
    /\ UNCHANGED <<storeVars, resolverVars, extVars, chatUser, chatId,
                   chatMessages, messageText, loading, sending, pc, text,
                   data, lastSend>>

\* fetchMessages: the response arrives, setMessages(data), setLoading(false)
FetchDeliver ==
    \E s \in fetchResponses :
        /\ chatMessages' = s.data
        /\ loading' = FALSE
        /\ fetchResponses' = fetchResponses \ {s}
        /\ UNCHANGED <<storeVars, resolverVars, extVars, chatUser, chatId,
                       messageText, sending, pc, text, data, fetchPending,
                       lastSend>>

\* handleSendMessage up to the insert request
SendStart ==
    /\ chatId # NoId
    /\ pc = "idle"
    /\ Trim(messageText) # <<>>
    /\ Cardinality(messages) < MaxMsgs
    /\ sending' = TRUE
    /\ text' = messageText
    /\ messageText' = <<>>
    /\ pc' = "insert"
    /\ UNCHANGED <<storeVars, resolverVars, extVars, chatUser, chatId,
                   chatMessages, loading, data, fetchPending, fetchResponses,
                   lastSend>>

\* the row handleSendMessage inserts for user uid on the route of
\* conversation id: id and created_at by default, read_at null
MessageRow(uid, id, content) ==
    [ id |-> nextId,
      conversation_id |-> id,
      sender_id |-> uid,
      content |-> content,
      created_at |-> now,
      read_at |-> NoTime ]

NewMessage == MessageRow(chatUser, chatId, text)

\* the insert checked against the INSERT policy alone
MsgInsertReturningAllowed_InsertOnly(uid, m) ==
    MsgInsertPolicy(uid, m)

\* insert(...).select(): INSERT ... RETURNING, so the new row must pass the
\* INSERT policy and be visible under the SELECT policy
MsgInsertReturningAllowed(uid, m) ==
    MsgInsertPolicy(uid, m) /\ MsgSelectPolicy(uid, m)

SendRecord(status, id, update) ==
    [ status |-> status, conversation_id |-> chatId, sender_id |-> chatUser,
      id |-> id, update |-> update ]

\* the catch block without setMessageText(text)
SendFailed_NoRestore(status) ==
    /\ messageText' = messageText
    /\ sending' = FALSE
    /\ text' = <<>>
    /\ data' = NoData
    /\ pc' = "idle"
    /\ lastSend' = SendRecord(status, NoId, "not issued")

\* the catch block without the finally block
SendFailed_NoFinally(status) ==
    /\ messageText' = text
    /\ sending' = sending
    /\ text' = <<>>
    /\ data' = NoData
    /\ pc' = "idle"
    /\ lastSend' = SendRecord(status, NoId, "not issued")

\* handleSendMessage: the catch block (console.error, setMessageText(text))
\* and the finally block (setSending(false))
SendFailed(status) ==
    /\ messageText' = text
    /\ sending' = FALSE
    /\ text' = <<>>
    /\ data' = NoData
    /\ pc' = "idle"
    /\ lastSend' = SendRecord(status, NoId, "not issued")

\* handleSendMessage: the insert is answered; fault: the store fails
\* (connectivity). On error the catch and finally blocks run
SendInsertAnswer(fault) ==
    /\ pc = "insert"
    /\ IF /\ ~fault
          /\ MsgForeignKeys(NewMessage)
          /\ MsgInsertReturningAllowed(chatUser, NewMessage)
       THEN /\ messages' = messages \cup {NewMessage}
            /\ nextId' = nextId + 1
            /\ data' = NewMessage
            /\ pc' = "update"
            /\ UNCHANGED <<messageText, sending, text, lastSend>>
       ELSE /\ SendFailed(IF fault \/ ~MsgForeignKeys(NewMessage)
                          THEN "StoreFailure" ELSE "Forbidden")
            /\ UNCHANGED <<messages, nextId>>
    /\ UNCHANGED <<conversations, now, resolverVars, extVars, chatUser,
                   chatId, chatMessages, loading, fetchPending,
                   fetchResponses>>

\* the insert answered by the store
SendInsert == SendInsertAnswer(FALSE)

\* update({last_message_at}).eq('id', id) issued by uid: the rows it changes
TouchConversation(uid, id) ==
    { IF c.id = id /\ ConvUpdatePolicy(uid, c) /\ ConvSelectPolicy(uid, c)
      THEN [c EXCEPT !.last_message_at = now]
      ELSE c : c \in conversations }

\* the update followed by `if (error) throw error`
SendUpdateAnswer_ThrowOnError(fault) ==
    /\ pc = "update"
    /\ conversations' = conversations
    /\ IF fault
       THEN /\ SendFailed("StoreFailure")
            /\ UNCHANGED chatMessages
       ELSE /\ chatMessages' = <<data>> \o chatMessages
            /\ sending' = FALSE
            /\ pc' = "idle"
            /\ text' = <<>>
            /\ data' = NoData
            /\ lastSend' = SendRecord("ok", data.id, "answered")
            /\ UNCHANGED messageText
    /\ UNCHANGED <<messages, nextId, now, resolverVars, extVars, chatUser,
                   chatId, loading, fetchPending, fetchResponses>>

\* handleSendMessage: the update of last_message_at is answered (fault: the
\* store fails); its result is not inspected, so setMessages and the finally
\* block follow either way
SendUpdateAnswer(fault) ==
    /\ pc = "update"
    /\ conversations' = IF fault THEN conversations
                        ELSE TouchConversation(chatUser, chatId)
    /\ chatMessages' = <<data>> \o chatMessages
    /\ sending' = FALSE
    /\ pc' = "idle"
    /\ text' = <<>>
    /\ data' = NoData
    /\ lastSend' = SendRecord("ok", data.id,
                              IF fault THEN "failed" ELSE "answered")
    /\ UNCHANGED <<messages, nextId, now, resolverVars, extVars, chatUser,
                   chatId, messageText, loading, fetchPending, fetchResponses>>

\* the update answered by the store
SendUpdate == SendUpdateAnswer(FALSE)

\* handleSendMessage of a non-blank draft run to completion on another device
\* by its signed-in user uid, on the route of conversation id: the insert,
\* then the update of last_message_at; that device's screen is not kept
OtherSend(uid, id) ==
    LET row == MessageRow(uid, id, <<"h", "i">>)
    IN  /\ Cardinality(messages) < MaxMsgs
        /\ MsgForeignKeys(row)
        /\ MsgInsertReturningAllowed(uid, row)
        /\ messages' = messages \cup {row}
        /\ nextId' = nextId + 1
        /\ conversations' = TouchConversation(uid, id)
        /\ UNCHANGED <<now, resolverVars, extVars, screenVars>>

\* a participant sending the text content from the chat screen of another
\* device
OtherSendText(uid, id, content) ==
    LET row == MessageRow(uid, id, content)
    IN  /\ Cardinality(messages) < MaxMsgs
        /\ MsgForeignKeys(row)
        /\ MsgInsertReturningAllowed(uid, row)
        /\ messages' = messages \cup {row}
        /\ nextId' = nextId + 1
        /\ conversations' = TouchConversation(uid, id)
        /\ UNCHANGED <<now, resolverVars, extVars, screenVars>>

\* UPDATE messages SET read_at = now() WHERE id = m.id, issued by the
\* authenticated user uid: it changes the row only if the UPDATE policy (and
\* the SELECT policy, the WHERE clause reading the row) admits it
MarkRead(uid, m) ==
    LET applies == MsgUpdatePolicy(uid, m) /\ MsgSelectPolicy(uid, m)
    IN  /\ messages' = IF applies
                       THEN (messages \ {m}) \cup {[m EXCEPT !.read_at = now]}
                       ELSE messages
        /\ UNCHANGED <<conversations, nextId, now, resolverVars, extVars, screenVars>>

\* ------------------------------------------------------ Messages screen
\* every arrangement of the rows in a sequence
Arrangements(rows) ==
    { s \in [1..Cardinality(rows) -> rows] :
        \A i \in DOMAIN s, j \in DOMAIN s : i # j => s[i] # s[j] }

\* messages (content, created_at) embedded in a conversation row: the
\* select asks for no order of the embedded rows, so the store may return
\* them in any arrangement
Embedded(rows) ==
    { [i \in DOMAIN s |-> [ content |-> s[i].content,
                            created_at |-> s[i].created_at ]] :
        s \in Arrangements(rows) }

\* .order('last_message_at', {ascending: false}) on the conversation rows
OrderByLastMessage(rows) ==
    { s \in Arrangements(rows) :
        \A i \in DOMAIN s, j \in DOMAIN s :
            i < j => s[i].last_message_at >= s[j].last_message_at }

\* fetchConversations of the user uid: the conversations uid takes part in,
\* each with its embedded messages and the other participant
fetchConversations(uid) ==
    LET rows == { c \in conversations :
                    /\ ConvSelectPolicy(uid, c)
                    /\ \/ c.participant_1_id = uid
                       \/ c.participant_2_id = uid }
        msgs(c) == { m \in messages :
                       MsgSelectPolicy(uid, m) /\ m.conversation_id = c.id }
    IN  \E s \in OrderByLastMessage(rows) :
        \E embed \in [rows -> UNION { Embedded(msgs(c)) : c \in rows }] :
            /\ \A c \in rows : embed[c] \in Embedded(msgs(c))
            /\ inboxConversations' =
                 [ i \in DOMAIN s |->
                     [ id |-> s[i].id,
                       last_message_at |-> s[i].last_message_at,
                       messages |-> embed[s[i]],
                       other_participant |->
                           IF s[i].participant_1_id = uid
                           THEN s[i].participant_2_id
                           ELSE s[i].participant_1_id ] ]
            /\ UNCHANGED <<storeVars, resolverVars, screenVars, catalogVars,
                           clientVars>>

\* renderItem: the preview text of a list item, <<>> when none is rendered
Preview(item) ==
    IF item.messages = <<>> THEN <<>> ELSE item.messages[1].content

\* ------------------------------------- resolver calls that overlap in time
\* getOrCreateConversation is entered on device p by its signed-in user
CallStart(p, userId, otherUserId, listingId, requestId) ==
    /\ calls[p].pc \in {"idle", "done"}
    /\ calls' = [calls EXCEPT ![p] =
           [ NoClientCall EXCEPT !.pc = "lookup", !.userId = userId,
               !.otherUserId = otherUserId, !.listingId = listingId,
               !.requestId = requestId ]]
    /\ UNCHANGED <<storeVars, resolverVars, screenVars, catalogVars,
                   lastRead, lastWrite, inboxConversations>>

\* the call after a failed lookup that is not rethrown: data is null, so the
\* insert follows
AfterLookup_IgnoreError(c, rows, fault) ==
    IF ~fault /\ Cardinality(rows) = 1
    THEN [c EXCEPT !.pc = "done", !.status = "found",
                   !.id = (CHOOSE r \in rows : TRUE).id,
                   !.lookups = c.lookups + 1]
    ELSE [c EXCEPT !.pc = "insert", !.lookups = c.lookups + 1,
                   !.fault = IF fault THEN "lookup" ELSE "none"]

\* the call after `await query.maybeSingle()`: `if (error) throw error`
\* (a store failure, or more than one row), `if (data) return data.id`,
\* otherwise on to the insert
AfterLookup(c, rows, fault) ==
    IF fault \/ Cardinality(rows) > 1
    THEN [c EXCEPT !.pc = "done", !.status = "error", !.failed = "lookup",
                   !.lookups = c.lookups + 1,
                   !.fault = IF fault THEN "lookup" ELSE "none"]
    ELSE IF Cardinality(rows) = 1
    THEN [c EXCEPT !.pc = "done", !.status = "found",
                   !.id = (CHOOSE r \in rows : TRUE).id,
                   !.lookups = c.lookups + 1]
    ELSE [c EXCEPT !.pc = "insert", !.lookups = c.lookups + 1]

\* the lookup query of the call on device p is answered; fault: the store
\* fails (connectivity)
CallLookup(p, fault) ==
    LET c == calls[p]
        rows == LookupRows(c.userId, c.userId, c.otherUserId, c.listingId,
                           c.requestId)
    IN  /\ c.pc = "lookup"
        /\ calls' = [calls EXCEPT ![p] = AfterLookup(c, rows, fault)]
        /\ UNCHANGED <<storeVars, resolverVars, screenVars, catalogVars,
                       lastRead, lastWrite, inboxConversations>>

\* the insert of the call on device p is answered: `if (createError) throw
\* createError`, otherwise `return newConv.id`
CallInsert(p, fault) ==
    LET c == calls[p]
        row == NewConversation(c.userId, c.otherUserId, c.listingId,
                               c.requestId)
        ok == /\ ~fault
              /\ ConvUnique(row)
              /\ ConvForeignKeys(row)
              /\ ConvInsertPolicy(c.userId, row)
              /\ ConvSelectPolicy(c.userId, row)
    IN  /\ c.pc = "insert"
        /\ Cardinality(conversations) < MaxConvs
        /\ IF ok
           THEN /\ conversations' = conversations \cup {row}
                /\ nextId' = nextId + 1
                /\ calls' = [calls EXCEPT ![p] =
                       [c EXCEPT !.pc = "done", !.status = "created",
                                 !.id = row.id, !.inserts = c.inserts + 1]]
           ELSE /\ UNCHANGED <<conversations, nextId>>
                /\ calls' = [calls EXCEPT ![p] =
                       [c EXCEPT !.pc = "done", !.status = "error",
                                 !.failed = "insert",
                                 !.inserts = c.inserts + 1,
                                 !.fault = IF fault THEN "insert"
                                                    ELSE "none"]]
        /\ UNCHANGED <<messages, now, resolverVars, screenVars, catalogVars,
                       lastRead, lastWrite, inboxConversations>>

\* ---------------------------------------------- statements of any client
\* the conversations policy on SELECT with every row visible to every user
ConvVisible_Everyone(uid, rows) == rows

\* the rows of the conversations table a SELECT of user uid can return
ConvVisible(uid, rows) == { c \in rows : ConvSelectPolicy(uid, c) }

\* the rows of the messages table a SELECT of user uid can return
MsgVisible(uid, rows) == { m \in rows : MsgSelectPolicy(uid, m) }

ReadRecord(uid, where, convs, msgs) ==
    [ uid |-> uid, matching |-> Cardinality(where),
      conversations |-> convs, messages |-> msgs ]

\* SELECT * FROM conversations WHERE ..., issued by the authenticated user
\* uid; where is the set of stored rows the WHERE clause matches
SelectConversations(uid, where) ==
    /\ lastRead' = ReadRecord(uid, where, ConvVisible(uid, where), {})
    /\ UNCHANGED <<storeVars, resolverVars, screenVars, catalogVars, calls,
                   lastWrite, inboxConversations>>

\* SELECT * FROM messages WHERE ..., issued by the authenticated user uid
SelectMessages(uid, where) ==
    /\ lastRead' = ReadRecord(uid, where, {}, MsgVisible(uid, where))
    /\ UNCHANGED <<storeVars, resolverVars, screenVars, catalogVars, calls,
                   lastWrite, inboxConversations>>

WriteRecord(uid, stmt, row, ok) ==
    [ uid |-> uid, stmt |-> stmt, row |-> row, ok |-> ok ]

\* INSERT INTO conversations (participant_1_id, participant_2_id,
\* listing_id, request_id) without RETURNING, issued by the authenticated
\* user uid
InsertConversation(uid, p1, p2, listingId, requestId) ==
    LET row == NewConversation(p1, p2, listingId, requestId)
        ok  == /\ ConvUnique(row)
               /\ ConvForeignKeys(row)
               /\ ConvInsertPolicy(uid, row)
    IN  /\ Cardinality(conversations) < MaxConvs
        /\ IF ok
           THEN /\ conversations' = conversations \cup {row}
                /\ nextId' = nextId + 1
           ELSE UNCHANGED <<conversations, nextId>>
        /\ lastWrite' = WriteRecord(uid, "insert conversation", row, ok)
        /\ UNCHANGED <<messages, now, resolverVars, screenVars, catalogVars,
                       calls, lastRead, inboxConversations>>

\* INSERT INTO messages (conversation_id, sender_id, content) without
\* RETURNING, issued by the authenticated user uid
InsertMessage(uid, id, senderId) ==
    LET row == MessageRow(senderId, id, <<"h", "i">>)
        ok  == MsgForeignKeys(row) /\ MsgInsertPolicy(uid, row)
    IN  /\ Cardinality(messages) < MaxMsgs
        /\ IF ok
           THEN /\ messages' = messages \cup {row}
                /\ nextId' = nextId + 1
           ELSE UNCHANGED <<messages, nextId>>
        /\ lastWrite' = WriteRecord(uid, "insert message", row, ok)
        /\ UNCHANGED <<conversations, now, resolverVars, screenVars,
                       catalogVars, calls, lastRead, inboxConversations>>

\* UPDATE messages SET read_at = v WHERE id = m.id, issued by the
\* authenticated user uid with a timestamp v of the client's choice (null,
\* or any instant up to now): the UPDATE policy names no column
SetReadAt(uid, m, v) ==
    LET row == [m EXCEPT !.read_at = v]
        ok  == /\ MsgSelectPolicy(uid, m)
               /\ MsgUpdatePolicy(uid, m)
               /\ MsgUpdatePolicy(uid, row)
    IN  /\ messages' = IF ok THEN (messages \ {m}) \cup {row} ELSE messages
        /\ UNCHANGED <<conversations, nextId, now, resolverVars, screenVars,
                       extVars>>

\* the texts a client writes into the content column
Contents == { <<"h", "i">>, <<"y", "o">> }

\* UPDATE messages SET sender_id = senderId, content = content
\* WHERE id = m.id, issued by the authenticated user uid: USING is checked on
\* the stored row, WITH CHECK and the foreign keys on the new one
EditMessage(uid, m, senderId, content) ==
    LET row == [m EXCEPT !.sender_id = senderId, !.content = content]
        ok  == /\ MsgSelectPolicy(uid, m)
               /\ MsgUpdatePolicy(uid, m)
               /\ MsgUpdatePolicy(uid, row)
               /\ MsgForeignKeys(row)
    IN  /\ row # m
        /\ messages' = IF ok THEN (messages \ {m}) \cup {row} ELSE messages
        /\ UNCHANGED <<conversations, nextId, now, resolverVars, screenVars,
                       extVars>>

\* UPDATE conversations SET participant_2_id = p2 WHERE id = c.id, issued
\* by the authenticated user uid
UpdateConversation(uid, c, p2) ==
    LET row == [c EXCEPT !.participant_2_id = p2]
        ok  == /\ ConvSelectPolicy(uid, c)
               /\ ConvUpdatePolicy(uid, c)
               /\ ConvUpdatePolicy(uid, row)
               /\ ConvForeignKeys(row)
    IN  /\ row # c
        /\ conversations' = IF ok THEN (conversations \ {c}) \cup {row}
                            ELSE conversations
        /\ lastWrite' = WriteRecord(uid, "update conversation", row, ok)
        /\ UNCHANGED <<messages, nextId, now, resolverVars, screenVars,
                       catalogVars, calls, lastRead, inboxConversations>>

\* ------------------------------------------------------ cascading deletes
\* listing_id and request_id declared ON DELETE SET NULL: a conversation
\* outlives its listing or request
KeptConversations_SetNull(P, L, R) ==
    { [c EXCEPT !.listing_id = IF c.listing_id \in L THEN c.listing_id
                               ELSE NULL,
                !.request_id = IF c.request_id \in R THEN c.request_id
                               ELSE NULL] :
        c \in { d \in conversations :
                   d.participant_1_id \in P /\ d.participant_2_id \in P } }

\* conversations: the four references are ON DELETE CASCADE, so the rows left
\* when the referenced tables shrink to P (profiles), L (listings) and R
\* (requests) are those whose references are all still there
KeptConversations(P, L, R) ==
    { c \in conversations :
        /\ c.participant_1_id \in P
        /\ c.participant_2_id \in P
        /\ (c.listing_id # NULL => c.listing_id \in L)
        /\ (c.request_id # NULL => c.request_id \in R) }

\* messages: conversation_id and sender_id are ON DELETE CASCADE
KeptMessages(convs, P) ==
    { m \in messages :
        /\ \E c \in convs : c.id = m.conversation_id
        /\ m.sender_id \in P }

\* the tables after the referenced tables shrink to P, L and R
Cascade(P, L, R) ==
    /\ profiles' = P
    /\ listings' = L
    /\ requests' = R
    /\ conversations' = KeptConversations(P, L, R)
    /\ messages' = KeptMessages(KeptConversations(P, L, R), P)
    /\ UNCHANGED <<nextId, now, resolverVars, screenVars, clientVars,
                       inboxConversations>>

\* DELETE FROM profiles WHERE id = u (or the auth user is deleted):
\* listings.user_id and requests.user_id are ON DELETE CASCADE too
DeleteProfile(u) ==
    /\ u \in profiles
    /\ Cascade(profiles \ {u},
               { l \in listings : ListingOwner[l] # u },
               { r \in requests : RequestOwner[r] # u })

\* DELETE FROM listings WHERE id = l
DeleteListing(l) ==
    /\ l \in listings
    /\ Cascade(profiles, listings \ {l}, requests)

\* DELETE FROM requests WHERE id = r
DeleteRequest(r) ==
    /\ r \in requests
    /\ Cascade(profiles, listings, requests \ {r})

\* the timestamps written at the current instant
Stamped ==
    { c.created_at : c \in conversations }
        \cup { c.last_message_at : c \in conversations }
        \cup { m.created_at : m \in messages }
        \cup { m.read_at : m \in messages }

\* time passes; the clock is read only when a row is written, so an instant
\* at which nothing was written is not told apart from the next one
Tick ==
    /\ now < MaxTime
    /\ now \in Stamped
    /\ now' = now + 1
    /\ UNCHANGED <<conversations, messages, nextId, resolverVars, extVars, screenVars>>

StartChat ==
    \/ \E uid \in Initiators, listing \in Listings :
           BrowseHandleChat(uid, listing)
    \/ \E uid \in Initiators, request \in Requests :
           RequestsHandleChat(uid, request)

\* the chat screen of one device: conversations started from the item
\* screens, the route opened by a user who started none, drafts and sends
Next ==
    \/ StartChat
    \/ \E uid \in Users \ Initiators, c \in conversations : OpenChat(uid, c.id)
    \/ \E t \in Texts : TypeText(t)
    \/ SendStart
    \/ SendInsert
    \/ SendUpdate
    \/ Tick

Spec == Init /\ [][Next]_vars

\* the messages table under the statements of every signed-in user
NextRead ==
    \/ OtherChat
    \/ \E uid \in Users, c \in conversations : OtherSend(uid, c.id)
    \/ \E uid \in Users, m \in messages : MarkRead(uid, m)
    \/ Tick

SpecRead == Init /\ [][NextRead]_vars

\* one chat screen fetching while the participants send from their devices
NextFetch ==
    \/ OtherChat
    \/ \E uid \in Users, c \in conversations : OpenChat(uid, c.id)
    \/ \E uid \in Users, c \in conversations : OtherSend(uid, c.id)
    \/ FetchQuery
    \/ FetchDeliver
    \/ Tick

SpecFetch == Init /\ [][NextFetch]_vars

\* the SELECT statements of every signed-in user on the tables the
\* participants fill from their devices
NextView ==
    \/ OtherChat
    \/ \E uid \in Users, c \in conversations : OtherSend(uid, c.id)
    \/ \E uid \in Users, where \in SUBSET conversations :
           SelectConversations(uid, where)
    \/ \E uid \in Users, where \in SUBSET messages :
           SelectMessages(uid, where)

SpecView == Init /\ [][NextView]_vars

\* the INSERT statements of every signed-in user, checked by the foreign
\* keys and the row-level policies alone
NextStore ==
    \/ \E uid \in Users, p1 \in Initiators :
         \E p2 \in Initiators \ {p1} :
           InsertConversation(uid, p1, p2, NULL, NULL)
    \/ \E uid \in Users, c \in conversations, senderId \in Users :
           InsertMessage(uid, c.id, senderId)

SpecStore == Init /\ [][NextStore]_vars

\* the UPDATE statements of every signed-in user on the messages the
\* participants send from their devices
NextMark ==
    \/ OtherChat
    \/ \E uid \in Users, c \in conversations : OtherSend(uid, c.id)
    \/ \E uid \in Users, m \in messages, v \in {NoTime} \cup (0..now) :
           SetReadAt(uid, m, v)
    \/ Tick

SpecMark == Init /\ [][NextMark]_vars

\* getOrCreateConversation running on two devices at once, the store
\* answering each statement or failing it
NextRace ==
    \/ \E p \in Clients, userId \in Initiators :
         \E otherUserId \in Initiators \ {userId},
            listingId \in {"l1", NULL} :
           CallStart(p, userId, otherUserId, listingId, NULL)
    \/ \E p \in Clients, fault \in BOOLEAN : CallLookup(p, fault)
    \/ \E p \in Clients, fault \in BOOLEAN : CallInsert(p, fault)

SpecRace == Init /\ [][NextRace]_vars

\* the chat screen of one device over a store that may fail a statement
NextSend ==
    \/ StartChat
    \/ \E uid \in Users \ Initiators, c \in conversations : OpenChat(uid, c.id)
    \/ \E t \in Texts : TypeText(t)
    \/ SendStart
    \/ \E fault \in BOOLEAN : SendInsertAnswer(fault)
    \/ \E fault \in BOOLEAN : SendUpdateAnswer(fault)
    \/ Tick

SpecSend == Init /\ [][NextSend]_vars

\* the same screen when every store call is eventually answered: the insert
\* and the update awaited by handleSendMessage each return (each answer
\* moves pc on)
SpecSendLive ==
    /\ Init
    /\ [][NextSend]_vars
    /\ WF_pc(\E fault \in BOOLEAN : SendInsertAnswer(fault))
    /\ WF_pc(\E fault \in BOOLEAN : SendUpdateAnswer(fault))

\* conversations started and messages sent from the participants' devices
\* while users, listings and requests are deleted
NextCascade ==
    \/ OtherChat
    \/ \E uid \in Users, c \in conversations : OtherSend(uid, c.id)
    \/ \E u \in Users : DeleteProfile(u)
    \/ \E l \in Listings : DeleteListing(l)
    \/ \E r \in Requests : DeleteRequest(r)

SpecCascade == Init /\ [][NextCascade]_vars

\* the UPDATE statements on the other columns of messages
NextEdit ==
    \/ OtherChat
    \/ \E uid \in Users, c \in conversations : OtherSend(uid, c.id)
    \/ \E uid \in Users, m \in messages, senderId \in Users,
           content \in Contents : EditMessage(uid, m, senderId, content)

SpecEdit == Init /\ [][NextEdit]_vars

\* conversations under the sends and first contacts of the participants and
\* the UPDATE statements of every signed-in user
NextFrame ==
    \/ OtherChat
    \/ \E uid \in Users, c \in conversations : OtherSend(uid, c.id)
    \/ \E uid \in Users, c \in conversations, p2 \in Users :
           UpdateConversation(uid, c, p2)
    \/ Tick

SpecFrame == Init /\ [][NextFrame]_vars

\* the chat buttons of the listing and request screens, pressed by whoever
\* uses the device
NextEntry ==
    \/ \E user \in SignedIn, listing \in Listings :
           HandleChat(user, ListingOwner[listing], listing, NULL)
    \/ \E user \in SignedIn, request \in Requests :
           HandleChat(user, RequestOwner[request], NULL, request)

SpecEntry == Init /\ [][NextEntry]_vars

\* one chat screen of a participant, fetching and sending while the
\* participants send from their other devices
NextChat ==
    \/ \E uid \in Initiators : BrowseHandleChat(uid, "l1")
    \/ TypeText(<<"h", "i">>)
    \/ SendStart
    \/ SendInsert
    \/ SendUpdate
    \/ FetchQuery
    \/ FetchDeliver
    \/ \E uid \in Initiators, c \in conversations : OtherSend(uid, c.id)
    \/ Tick

SpecChat == Init /\ [][NextChat]_vars

\* the Messages screen of a user while the participants start chats and
\* send texts
NextInbox ==
    \/ OtherChat
    \/ \E uid \in Initiators, c \in conversations, content \in Contents :
           OtherSendText(uid, c.id, content)
    \/ \E uid \in Initiators : fetchConversations(uid)
    \/ Tick

SpecInbox == Init /\ [][NextInbox]_vars

NextResolver == Resolve

SpecResolver == Init /\ [][NextResolver]_vars

\* ------------------------------------------------- resolver: properties
Made(call) == call.status # "none"
Returned(call) == call.status \in {"found", "created"}

SameTuple(a, b) ==
    /\ a.userId = b.userId
    /\ a.otherUserId = b.otherUserId
    /\ a.listingId = b.listingId
    /\ a.requestId = b.requestId

\* the stored rows whose four columns equal the given tuple, null for a
\* missing reference
RowsWithTuple(userId, otherUserId, listingId, requestId) ==
    { c \in conversations :
        /\ c.participant_1_id = userId
        /\ c.participant_2_id = otherUserId
        /\ c.listing_id = listingId
        /\ c.request_id = requestId }

RowsOfCall(call) ==
    RowsWithTuple(call.userId, call.otherUserId, call.listingId, call.requestId)

ConvById(id) == { c \in conversations : c.id = id }

\* C1: two calls made one after the other with the same tuple both return,
\* return the same id, and afterwards exactly one row holds that tuple.
C1_IdempotentResolution ==
    (Made(prevCall) /\ Made(lastCall) /\ SameTuple(prevCall, lastCall)) =>
        /\ Returned(prevCall)
        /\ Returned(lastCall)
        /\ prevCall.id = lastCall.id
        /\ Cardinality(RowsOfCall(lastCall)) = 1

\* C2: the table never holds two rows with the same participant_1_id,
\* participant_2_id, listing_id and request_id (pair compared as given).
C2_Uniqueness ==
    \A c1 \in conversations, c2 \in conversations :
        ( /\ c1.participant_1_id = c2.participant_1_id
          /\ c1.participant_2_id = c2.participant_2_id
          /\ c1.listing_id = c2.listing_id
          /\ c1.request_id = c2.request_id ) => c1 = c2

\* a repeated call found the row its first call created, in a full table
C2_Witness ==
    /\ prevCall.status = "created"
    /\ lastCall.status = "found"
    /\ SameTuple(prevCall, lastCall)
    /\ lastCall.id = prevCall.id
    /\ Cardinality(conversations) = MaxConvs

\* C3: every call returns the id of a row whose four columns equal its
\* arguments (a missing reference matching only null): an existing row is
\* returned only on an exact match, otherwise a new exact row is inserted.
C3_ExactMatch ==
    Made(lastCall) =>
        /\ Returned(lastCall)
        /\ \E c \in RowsOfCall(lastCall) : c.id = lastCall.id

\* C4: the lookup never returns a row whose stored pair is not the pair as
\* given, and resolve(A, B, L, null) followed by resolve(B, A, L, null) with no
\* other conversation stored returns two different ids and leaves exactly the
\* two rows (A, B, L) and (B, A, L).
C4_Directionality ==
    /\ lastCall.status = "found" =>
          \A c \in ConvById(lastCall.id) :
              /\ c.participant_1_id = lastCall.userId
              /\ c.participant_2_id = lastCall.otherUserId
    /\ ( /\ Made(prevCall) /\ Made(lastCall)
          /\ prevCall.userId # prevCall.otherUserId
          /\ lastCall.userId = prevCall.otherUserId
          /\ lastCall.otherUserId = prevCall.userId
          /\ prevCall.listingId # NULL
          /\ lastCall.listingId = prevCall.listingId
          /\ prevCall.requestId = NULL /\ lastCall.requestId = NULL
          /\ conversations \subseteq
                (RowsOfCall(prevCall) \cup RowsOfCall(lastCall)) ) =>
            /\ Returned(prevCall) /\ Returned(lastCall)
            /\ prevCall.id # lastCall.id
            /\ Cardinality(conversations) = 2
            /\ \E c \in RowsOfCall(prevCall) : c.id = prevCall.id
            /\ \E c \in RowsOfCall(lastCall) : c.id = lastCall.id

\* the two opposite first contacts about l1, on an empty table
C4_Witness ==
    /\ prevCall = [userId |-> "u1", otherUserId |-> "u2", listingId |-> "l1",
                   requestId |-> NULL, status |-> "created", id |-> 1]
    /\ lastCall = [userId |-> "u2", otherUserId |-> "u1", listingId |-> "l1",
                   requestId |-> NULL, status |-> "created", id |-> 2]
    /\ Cardinality(conversations) = 2

\* the table holds only rows that calls of the form (A, B, L, null) insert
OnlyListingRows ==
    \A c \in conversations : c.listing_id # NULL /\ c.request_id = NULL

ListingCalls(a, b) ==
    /\ Made(a) /\ Made(b)
    /\ a.userId = b.userId /\ a.otherUserId = b.otherUserId
    /\ a.listingId # NULL /\ b.listingId # NULL
    /\ a.listingId # b.listingId
    /\ a.requestId = NULL /\ b.requestId = NULL

\* C5: calls (A, B, L1, null) and (A, B, L2, null) with L1 # L2, in either
\* order, never return the same id, and both return an id in every table
\* state that such calls reach.
C5_PerItemIsolation ==
    ListingCalls(prevCall, lastCall) =>
        /\ (Returned(prevCall) /\ Returned(lastCall)) =>
              prevCall.id # lastCall.id
        /\ OnlyListingRows => (Returned(prevCall) /\ Returned(lastCall))

\* both listings' conversations exist and are found again, l2 before l1
C5_Witness ==
    /\ ListingCalls(prevCall, lastCall)
    /\ OnlyListingRows
    /\ prevCall.status = "found" /\ prevCall.listingId = "l2"
    /\ lastCall.status = "found" /\ lastCall.listingId = "l1"
    /\ prevCall.id # lastCall.id

\* ------------------------------------------------ messages: properties
IsParticipant(uid, id) ==
    \E c \in ConvById(id) :
        uid = c.participant_1_id \/ uid = c.participant_2_id

IsSecondParticipant(uid, id) ==
    \E c \in ConvById(id) : uid = c.participant_2_id

\* C6: a send by a user who is not a participant of the conversation is
\* rejected as Forbidden and leaves no message row: its insert never
\* succeeds, and no row of that sender is stored in that conversation.
C6_MessageOwnership ==
    /\ pc = "update" => IsParticipant(chatUser, chatId)
    /\ ( /\ lastSend.status # "none"
          /\ ~IsParticipant(lastSend.sender_id, lastSend.conversation_id) ) =>
            /\ lastSend.status = "Forbidden"
            /\ lastSend.id = NoId
            /\ ~\E m \in messages :
                   /\ m.conversation_id = lastSend.conversation_id
                   /\ m.sender_id = lastSend.sender_id

\* an outsider's send was rejected in a conversation that holds a message of
\* a participant, and the draft is back in the input
C6_Witness ==
    /\ lastSend.status = "Forbidden"
    /\ ~IsParticipant(lastSend.sender_id, lastSend.conversation_id)
    /\ \E m \in messages : m.conversation_id = lastSend.conversation_id
    /\ messageText = <<"h", "i">>

C8_RecipientOnly ==
    [][ \A uid \in Users, m \in messages :
          (MarkRead(uid, m) /\ messages' # messages) =>
              /\ IsParticipant(uid, m.conversation_id)
              /\ uid # m.sender_id ]_vars

\* what a fetchMessages query must return to the screen's user: all messages
\* of the conversation for a participant (none for another user), each once,
\* created_at non-increasing
FetchCorrect(s) ==
    /\ { s[i] : i \in DOMAIN s } =
           IF IsParticipant(chatUser, chatId)
           THEN { m \in messages : m.conversation_id = chatId }
           ELSE {}
    /\ \A i \in DOMAIN s, j \in DOMAIN s : i # j => s[i] # s[j]
    /\ \A i \in DOMAIN s, j \in DOMAIN s :
           i < j => s[i].created_at >= s[j].created_at

\* C9: every fetchMessages query returns all the messages of the
\* conversation, none of another conversation, newest first.
C9_ListOrdering ==
    [][ \A r \in fetchResponses' \ fetchResponses : FetchCorrect(r.data) ]_vars

\* a fetched list of MaxMsgs messages inserted at different instants has
\* reached the screen, the newest first
C9_Witness ==
    /\ ~loading
    /\ Len(chatMessages) = MaxMsgs
    /\ \A i \in 1..(Len(chatMessages) - 1) :
           chatMessages[i].created_at > chatMessages[i + 1].created_at
    /\ { chatMessages[i] : i \in DOMAIN chatMessages } \subseteq messages

\* C10: after a send that returned successfully, last_message_at of the
\* conversation is the time of that send, so it is not older than the
\* created_at of any message of the conversation.
C10_SendBumpsLastActivity ==
    (lastSend.status = "ok" /\ pc = "idle") =>
        \A c \in ConvById(lastSend.conversation_id) :
            \A m \in messages :
                m.conversation_id = c.id => c.last_message_at >= m.created_at

\* ------------------------------------------------- policies: properties
\* C11: no SELECT statement returns to a user a conversation the user is
\* not a participant of, nor a message of such a conversation, whatever its
\* WHERE clause matches.
C11_ReadConfidentiality ==
    /\ \A c \in lastRead.conversations :
           lastRead.uid = c.participant_1_id \/ lastRead.uid = c.participant_2_id
    /\ \A m \in lastRead.messages :
           IsParticipant(lastRead.uid, m.conversation_id)

\* a user asked for the stored messages, all of them of conversations of
\* two other users, and was returned none
C11_Witness ==
    /\ lastRead.uid = "u3"
    /\ lastRead.matching = MaxMsgs
    /\ Cardinality(messages) = MaxMsgs
    /\ lastRead.messages = {}
    /\ \A m \in messages : ~IsParticipant("u3", m.conversation_id)

\* C12: an INSERT of a message whose sender_id is not the caller is rejected
\* and adds no row; an INSERT that succeeds adds exactly its row, whose
\* sender_id is the caller.
C12_NoSenderImpersonation ==
    [][ (lastWrite' # lastWrite /\ lastWrite'.stmt = "insert message") =>
          IF lastWrite'.ok
          THEN /\ lastWrite'.row.sender_id = lastWrite'.uid
               /\ messages' = messages \cup {lastWrite'.row}
          ELSE messages' = messages ]_vars

\* a participant's INSERT in the name of the other participant was rejected
C12_Witness ==
    /\ lastWrite.stmt = "insert message"
    /\ ~lastWrite.ok
    /\ lastWrite.row.sender_id # lastWrite.uid
    /\ IsParticipant(lastWrite.uid, lastWrite.row.conversation_id)
    /\ IsParticipant(lastWrite.row.sender_id, lastWrite.row.conversation_id)
    /\ \A m \in messages : m.id # lastWrite.row.id

\* C13: an INSERT of a conversation succeeds only when the caller is
\* participant_1_id or participant_2_id of the new row; an INSERT of a
\* conversation between two other users adds no row.
C13_CreationAuthorization ==
    [][ (lastWrite' # lastWrite /\ lastWrite'.stmt = "insert conversation") =>
          IF lastWrite'.ok
          THEN /\ lastWrite'.uid \in { lastWrite'.row.participant_1_id,
                                       lastWrite'.row.participant_2_id }
               /\ conversations' = conversations \cup {lastWrite'.row}
          ELSE conversations' = conversations ]_vars

\* an INSERT of a conversation between two other users was rejected
C13_Witness ==
    /\ lastWrite.stmt = "insert conversation"
    /\ ~lastWrite.ok
    /\ lastWrite.uid \notin { lastWrite.row.participant_1_id,
                              lastWrite.row.participant_2_id }
    /\ \A c \in conversations : c.id # lastWrite.row.id

\* C18: the sender_id of every stored message is participant_1_id or
\* participant_2_id of the message's conversation.
C18_SenderMembership ==
    \A m \in messages : IsParticipant(m.sender_id, m.conversation_id)

\* ---------------------------------------- overlapping calls: properties
\* C14: a call whose lookup or insert fails ends by throwing the error; no
\* statement is issued twice; and the step in which the lookup fails issues
\* no insert and leaves the tables as they were.
C14_ResolverFailure ==
    [][ \A p \in Clients :
          LET c == calls'[p]
          IN  c # calls[p] =>
                /\ c.lookups <= 1 /\ c.inserts <= 1
                /\ (c.fault # "none" \/ c.failed # "none") =>
                       (c.pc = "done" /\ c.status = "error")
                /\ (c.fault = "lookup" \/ c.failed = "lookup") =>
                       /\ c.inserts = 0
                       /\ conversations' = conversations
                       /\ nextId' = nextId ]_vars

\* one call has thrown the error of its lookup and the other the error of
\* its insert, rows being stored
C14_Witness ==
    /\ conversations # {}
    /\ \E p \in Clients, q \in Clients :
          /\ calls[p].pc = "done" /\ calls[p].status = "error"
          /\ calls[p].fault = "lookup"
          /\ calls[q].pc = "done" /\ calls[q].status = "error"
          /\ calls[q].fault = "insert"

\* the rows holding exactly the tuple of call c
RowsOfClientCall(c) ==
    RowsWithTuple(c.userId, c.otherUserId, OrNull(c.listingId),
                  OrNull(c.requestId))

\* C17: a call that missed its lookup and whose insert the store answered
\* has inserted its row, whatever rows were inserted since its lookup: the
\* lookup and the insert are two statements and no constraint rejects a
\* second row of a tuple, so two overlapping calls for one tuple can both
\* insert (the witness: two rows of one tuple).
C17_ResolverRace ==
    \A p \in Clients :
        LET c == calls[p]
        IN  (c.pc = "done" /\ c.inserts = 1 /\ c.fault = "none") =>
                /\ c.status = "created"
                /\ \E r \in RowsOfClientCall(c) : r.id = c.id

\* both calls for one tuple have returned the id of the row they inserted,
\* and the table holds two rows of that tuple
C17_Witness ==
    /\ calls[1].status = "created" /\ calls[2].status = "created"
    /\ calls[1].userId = calls[2].userId
    /\ calls[1].otherUserId = calls[2].otherUserId
    /\ calls[1].listingId = calls[2].listingId
    /\ calls[1].requestId = calls[2].requestId
    /\ calls[1].id # calls[2].id
    /\ Cardinality(RowsOfClientCall(calls[1])) = 2

\* --------------------------------------------- send failures: properties
\* C15: when the insert of a send fails, the handler ends in that step: the
\* error is reported, no second insert and no update of last_message_at is
\* issued, the tables and the screen's list are unchanged, and the draft is
\* the text that was being sent.
C15_SendFailure ==
    [][ (pc = "insert" /\ pc' \notin {"insert", "update"}) =>
          /\ pc' = "idle" /\ ~sending'
          /\ lastSend'.status \in {"StoreFailure", "Forbidden"}
          /\ lastSend'.update = "not issued"
          /\ messages' = messages
          /\ conversations' = conversations
          /\ chatMessages' = chatMessages
          /\ messageText' = text ]_vars

\* a participant's send failed in the store after an earlier send succeeded:
\* the list still shows the earlier message only, the draft is back
C15_Witness ==
    /\ lastSend.status = "StoreFailure"
    /\ IsParticipant(lastSend.sender_id, lastSend.conversation_id)
    /\ pc = "idle" /\ ~sending
    /\ messageText = <<"h", "i">>
    /\ Len(chatMessages) = 1
    /\ Cardinality(messages) = 1

\* C16: when the insert of a send succeeded, the send succeeds whether or not
\* the update of last_message_at fails: the created message stays stored, is
\* put at the head of the screen's list, and the draft is left as it is.
C16_UpdateFailureNotFatal ==
    [][ (pc = "update" /\ pc' # "update") =>
          /\ pc' = "idle" /\ ~sending'
          /\ lastSend'.status = "ok" /\ lastSend'.id = data.id
          /\ data \in messages /\ messages' = messages
          /\ chatMessages' = <<data>> \o chatMessages
          /\ messageText' = messageText ]_vars

\* a send whose update failed has ended: its message is stored and heads
\* the list, the input is empty
C16_Witness ==
    /\ lastSend.status = "ok" /\ lastSend.update = "failed"
    /\ pc = "idle"
    /\ chatMessages # <<>>
    /\ chatMessages[1].id = lastSend.id
    /\ chatMessages[1] \in messages
    /\ messageText = <<>>

\* ------------------------------------------------ read state: properties
\* C19: the read_at of a new message is null, and a read_at that is set is
\* never changed again by any statement: it is set at most once and never
\* goes back to null or to an earlier instant.
C19_MonotonicReadState ==
    [][ /\ \A m \in messages' :
             (\A old \in messages : old.id # m.id) => m.read_at = NoTime
        /\ \A old \in messages, m \in messages' :
             (old.id = m.id /\ old.read_at # NoTime) =>
                 m.read_at = old.read_at ]_vars

\* -------------------------------------------------- cascade: properties
\* conversation c references the profile, listing or request that the step
\* deletes
RefersToDeleted(c) ==
    \/ c.participant_1_id \notin profiles'
    \/ c.participant_2_id \notin profiles'
    \/ (c.listing_id # NULL /\ c.listing_id \notin listings')
    \/ (c.request_id # NULL /\ c.request_id \notin requests')

\* C20: after every step each message references a stored conversation and
\* a stored sender, each conversation references stored participants and,
\* when set, a stored listing and request; and a step that deletes a
\* profile, a listing or a request removes every conversation that
\* references it, with all the messages of that conversation.
C20_CascadeIntegrity ==
    [][ /\ \A m \in messages' :
             /\ \E c \in conversations' : c.id = m.conversation_id
             /\ m.sender_id \in profiles'
        /\ \A c \in conversations' :
             /\ c.participant_1_id \in profiles'
             /\ c.participant_2_id \in profiles'
             /\ (c.listing_id # NULL => c.listing_id \in listings')
             /\ (c.request_id # NULL => c.request_id \in requests')
        /\ \A c \in conversations :
             RefersToDeleted(c) =>
                 /\ \A d \in conversations' : d.id # c.id
                 /\ \A m \in messages' : m.conversation_id # c.id ]_vars

\* a listing was deleted whose conversation held a message, while the
\* conversation about the other listing and its message are still stored
C20_Witness ==
    /\ listings = {"l2"}
    /\ profiles = Users
    /\ nextId = 5
    /\ Cardinality(conversations) = 1
    /\ Cardinality(messages) = 1
    /\ \A c \in conversations : c.listing_id = "l2"

\* --------------------------------------------------- frames: properties
\* C21: a stored message keeps its id, conversation_id, sender_id, content
\* and created_at in every later state: no statement changes a column other
\* than read_at.
C21_MessageFrame ==
    [][ \A old \in messages, m \in messages' :
          old.id = m.id =>
              /\ m.conversation_id = old.conversation_id
              /\ m.sender_id = old.sender_id
              /\ m.content = old.content
              /\ m.created_at = old.created_at ]_vars

\* C22: a stored conversation stays stored, and keeps its id,
\* participant_1_id, participant_2_id, listing_id, request_id and created_at
\* in every later state; sends, first contacts and UPDATE statements change
\* at most its last_message_at.
C22_FixedParticipants ==
    [][ \A c \in conversations :
          \E d \in conversations' :
              d = [c EXCEPT !.last_message_at = d.last_message_at] ]_vars

\* a participant's UPDATE of participant_2_id was refused on a conversation
\* in which a message was sent after its creation
C22_Witness ==
    /\ lastWrite.stmt = "update conversation"
    /\ ~lastWrite.ok
    /\ \E c \in conversations :
          /\ c.id = lastWrite.row.id
          /\ lastWrite.uid = c.participant_1_id
          /\ c.participant_2_id # lastWrite.row.participant_2_id
          /\ \E m \in messages :
                m.conversation_id = c.id /\ m.created_at > c.created_at

\* ------------------------------------------- chat entry points: properties
\* C23: every stored conversation has two different participants and at most
\* one of listing_id and request_id; and a handleChat pressed by the owner of
\* the item, or with nobody signed in, does not call the resolver and leaves
\* the table as it was.
C23_NoSelfConversation ==
    [][ /\ \A c \in conversations' :
             /\ c.participant_1_id # c.participant_2_id
             /\ (c.listing_id = NULL \/ c.request_id = NULL)
        /\ (lastCall'.status # "none"
              /\ ( lastCall'.userId = NULL
                    \/ lastCall'.userId = lastCall'.otherUserId )) =>
             /\ lastCall'.status = "not called"
             /\ conversations' = conversations ]_vars

\* the owner of l1 pressed its chat button after another user had started a
\* conversation about it and one about the request
C23_Witness ==
    /\ lastCall.status = "not called"
    /\ lastCall.userId = "u2" /\ lastCall.otherUserId = "u2"
    /\ lastCall.listingId = "l1"
    /\ \E c \in conversations : c.listing_id = "l1"
    /\ \E c \in conversations : c.request_id = "r1"

\* ------------------------------------------------- chat screen: properties
\* C24: the text of an insert the chat screen has issued is non-empty after
\* trimming, so the content of every stored message is.
C24_NonBlankContent ==
    /\ pc \in {"insert", "update"} => TrimEnd(TrimStart(text)) # <<>>
    /\ \A m \in messages : TrimEnd(TrimStart(m.content)) # <<>>

\* after a send, a whitespace-only draft is in the input of the idle
\* screen: the send button is disabled and the table holds only the
\* message sent before
C24_Witness ==
    /\ lastSend.status = "ok"
    /\ pc = "idle"
    /\ messageText = <<" ">>
    /\ Cardinality(messages) = 1

\* C25: every call returns an id: in the tables that calls made one after
\* the other reach, the lookup of a call never matches two rows.
C25_ResolverAvailability ==
    /\ Made(lastCall) => Returned(lastCall)
    /\ \A userId \in Initiators, otherUserId \in Initiators,
          listingId \in Listings \cup {NULL},
          requestId \in Requests \cup {NULL} :
          userId # otherUserId =>
              Cardinality(LookupRows(userId, userId, otherUserId, listingId,
                                     requestId)) <= 1

\* C26: the list of the chat screen never holds two entries with one id.
C26_NoDuplicateInList ==
    \A i \in DOMAIN chatMessages, j \in DOMAIN chatMessages :
        i # j => chatMessages[i].id # chatMessages[j].id

\* C27: once a send has succeeded and no fetchMessages call of the screen is
\* still to be answered or delivered, the sent message is in the list.
C27_SentMessageStaysVisible ==
    ( /\ lastSend.status = "ok" /\ pc = "idle"
      /\ fetchPending = 0 /\ fetchResponses = {} ) =>
        \E i \in DOMAIN chatMessages : chatMessages[i].id = lastSend.id

\* C30: the list of the chat screen is in non-increasing created_at order.
C30_ChatListOrder ==
    \A i \in DOMAIN chatMessages, j \in DOMAIN chatMessages :
        i < j => chatMessages[i].created_at >= chatMessages[j].created_at

\* C28: on the Messages screen, the preview of every conversation that has
\* messages is the content of a most recently created one of them.
C28_ConversationPreview ==
    \A i \in DOMAIN inboxConversations :
        LET item == inboxConversations[i]
        IN  item.messages # <<>> =>
                \E k \in DOMAIN item.messages :
                    /\ item.messages[k].content = Preview(item)
                    /\ \A n \in DOMAIN item.messages :
                           item.messages[n].created_at <=
                               item.messages[k].created_at

\* C29: when every store call is eventually answered, a send that set
\* sending to true eventually sets it back to false, so the input (editable
\* = !sending) does not stay locked.
C29_SendCompletes == sending ~> ~sending

\* a send refused by the store has ended: the input is unlocked again and
\* holds the text that was being sent
C29_Witness ==
    /\ lastSend.status = "Forbidden"
    /\ ~sending /\ pc = "idle"
    /\ messageText # <<>>

====
